---- MODULE Spec2Model ----
(***************************************************************************)
(* Statement lowering of rcc (src/ir/stmt.rs) and its diagnostic collector *)
(* (src/data/error.rs) as a state machine.                                 *)
(*                                                                         *)
(* The lowerer is a recursive visitor.  Its call stack is the variable     *)
(* `stack`: one frame per handler that is waiting for a nested             *)
(* compile_stmt to return, holding that handler's local variables.  The    *)
(* statement tree is an input: each statement is drawn when compile_stmt   *)
(* is called on it, so every tree of at most MaxStmts statements is        *)
(* lowered along some behaviour.                                           *)
(***************************************************************************)
EXTENDS Integers, Sequences, FiniteSets, TLC

\* Number of statements of the function body that is lowered.
MaxStmts == 3
\* Number of statements of a body made of loops, switches, compounds,
\* expressions, break and continue only.
MaxNest == 5
\* Number of errors, and of warnings, handed to the ErrorHandler.
MaxErrs == 3

\* Label identifiers and case constants that occur in the lowered bodies.
Names == {"a"}
Consts == {1, 2}
\* The errors handed to the ErrorHandler, before their conversion into a
\* CompileError, and the values a RecoverableResult carries.
ErrIn ==
    { [type |-> "CompileError", kind |-> "Lex", data |-> "UnterminatedComment"],
      [type |-> "SemanticError", kind |-> "", data |-> "UnreachableStatement"],
      [type |-> "String", kind |-> "", data |-> "pears"] }
RetVals == {1, 42}

VARIABLES
    builder,        \* FunctionBuilder: [blocks: Seq(Seq(inst)), cur: Ebb], and
                    \* a record of what was done with it: seen, forever, posts
    loops,          \* Compiler.loops: Seq(<<loop_body, end_body>>)
    switches,       \* Compiler.switches: Seq([entries, default, end])
    labels,         \* Compiler.labels: set of <<name, ebb>>, a map
    last_saw_loop,  \* Compiler.last_saw_loop
    stack,          \* the call stack of the lowerer, innermost frame last
    result,         \* what the outermost compile_all has returned so far
    budget,         \* statements of the body not yet drawn
    nloc,           \* locations handed out: statement k has location k
    last,           \* the call or return the last step made
    escapes,        \* locations of the return, break and goto statements drawn
    errors,         \* ErrorHandler.errors
    warnings,       \* ErrorHandler.warnings
    inserted,       \* every error ever queued, in order (history)
    removed,        \* every error ever taken out, in order (history)
    ret,            \* what the last ErrorHandler operation returned
    desugar         \* a for loop, and what it and its while form lower to

cvars == <<builder, loops, switches, labels, last_saw_loop, stack, result,
           budget, nloc, last, escapes>>
evars == <<errors, warnings, inserted, removed, ret>>
vars == <<builder, loops, switches, labels, last_saw_loop, stack, result,
          budget, nloc, last, escapes, errors, warnings, inserted, removed,
          ret, desugar>>

----------------------------------------------------------------------------
(* The function builder: blocks, instructions, the insertion point.        *)

Inst(op, to, table) == [op |-> op, to |-> to, table |-> table]
Jump(ebb) == Inst("jump", ebb, {})
Brz(ebb) == Inst("brz", ebb, {})
Return == Inst("return", 0, {})
\* What compile_expr and declare_stack leave in the current block.
Value == Inst("value", 0, {})
\* Switch::emit: the jump table and its fallback target.
SwitchEmit_no_table(table, otherwise) == Inst("switch", otherwise, {})
SwitchEmit(table, otherwise) == Inst("switch", otherwise, table)

Terminators == {"jump", "return", "switch"}

NewEbb(b) == Len(b.blocks) + 1
create_ebb(b) == [b EXCEPT !.blocks = Append(@, <<>>)]
ins(b, inst) == [b EXCEPT !.blocks[b.cur] = Append(@, inst)]
\* seen records every block that was made the insertion point.
switch_to_block(b, ebb) == [b EXCEPT !.cur = ebb, !.seen = @ \cup {ebb}]
BlockFilled(b, ebb) ==
    \E i \in 1..Len(b.blocks[ebb]) : b.blocks[ebb][i].op \in Terminators
is_filled(b) == BlockFilled(b, b.cur)
is_pristine(b) == b.blocks[b.cur] = <<>>

jump_to_block_unguarded(ebb, b) == ins(b, Jump(ebb))
jump_to_block_inverted(ebb, b) == IF is_filled(b) THEN ins(b, Jump(ebb)) ELSE b
jump_to_block(ebb, b) == IF ~is_filled(b) THEN ins(b, Jump(ebb)) ELSE b

fallthrough_no_jump(b) == switch_to_block(create_ebb(b), NewEbb(b))
fallthrough(b) ==
    LET bb == NewEbb(b)
    IN  switch_to_block(ins(create_ebb(b), Jump(bb)), bb)

----------------------------------------------------------------------------
(* Results and the call stack.                                             *)

\* CompileResult<()> of the outermost call, or a panic.  An error is its
\* kind, its location (statement loc, at the statement or at its condition)
\* and its payload: a text (a message, a name, is_default) or an Ebb.
Running ==
    [tag |-> "Running", kind |-> "", loc |-> 0, at |-> "", info |-> "",
     ebb |-> 0]
Ok == [tag |-> "Ok", kind |-> "", loc |-> 0, at |-> "", info |-> "", ebb |-> 0]
Err(kind, loc, at, info) ==
    [tag |-> "Err", kind |-> kind, loc |-> loc, at |-> at, info |-> info,
     ebb |-> 0]
ErrEbb(kind, loc, at, ebb) ==
    [tag |-> "Err", kind |-> kind, loc |-> loc, at |-> at, info |-> "",
     ebb |-> ebb]
Panic(msg) ==
    [tag |-> "Panic", kind |-> msg, loc |-> 0, at |-> "", info |-> "",
     ebb |-> 0]

Top == stack[Len(stack)]
Rest == SubSeq(stack, 1, Len(stack) - 1)

\* A call compile_stmt(stmt) whose statement is about to be drawn.  r says
\* which statements the caller passes: any; a for loop's init (a declaration
\* or an expression); a statement that is no compound ("other"); and the
\* statements for_loop builds around its post expression, which carry the
\* loop's location loc ("post", "body", "wrap").
StmtCall(r, loc) == [k |-> "stmt", r |-> r, loc |-> loc]
\* An absent body (None).
NoBody == [k |-> "none", r |-> "", loc |-> 0]

AtStmt(rs) ==
    /\ result.tag = "Running"
    /\ stack # <<>>
    /\ Top.k = "stmt"
    /\ Top.r \in rs

AtFrame(k) ==
    /\ result.tag = "Running"
    /\ stack # <<>>
    /\ Top.k = k

\* The location of the statement compile_stmt is called on.
Loc == IF Top.r \in {"post", "wrap"} THEN Top.loc ELSE nloc + 1
NextLoc == IF Top.r \in {"post", "wrap"} THEN nloc ELSE nloc + 1

\* A handler returns Ok(()) to the frame below; the outermost one ends the run.
ReturnOk(rest) ==
    /\ stack' = rest
    /\ result' = IF rest = <<>> THEN Ok ELSE result

\* A handler returns Err(e): the frames below see it (propagate).
ReturnErr(rest, e) ==
    /\ stack' = rest
    /\ result' = e

\* What every step of the lowerer records, and leaves alone.
Step(op, loc) ==
    /\ last' = [op |-> op, loc |-> loc, name |-> "", num |-> 0]
    /\ UNCHANGED <<escapes, errors, warnings, inserted, removed, ret,
                   desugar>>

\* A call of compile_stmt: the statement drawn gets the next location.  The
\* record keeps its kind and, of a Label, Goto or Case, its name or constant.
Call(op, name, num) ==
    /\ last' = [op |-> op, loc |-> Loc, name |-> name, num |-> num]
    /\ nloc' = NextLoc
    /\ escapes' = IF op \in {"Return", "Break", "Goto"}
                  THEN escapes \cup {Loc} ELSE escapes
    /\ UNCHANGED <<errors, warnings, inserted, removed, ret, desugar>>

Observe(op) == Call(op, "", 0)

StmtType ==
    {"Compound", "Decl", "Expr", "Return", "If", "While", "Break", "Continue",
     "For", "Do", "Switch", "Label", "Goto", "Case", "Default"}

is_jump_target_never(kind) == FALSE
is_jump_target(kind) == kind \in {"Case", "Default", "Label"}

\* compile_stmt's first lines: a statement that is no jump target is
\* rejected when the current block is filled.
Unreachable(kind) == is_filled(builder) /\ ~is_jump_target(kind)

Rejected == ReturnErr(Rest, Err("UnreachableStatement", Loc, "stmt", ""))

Reject ==
    /\ Rejected
    /\ UNCHANGED <<builder, loops, switches, labels, last_saw_loop, budget>>

----------------------------------------------------------------------------
InitWith(n) ==
    /\ builder = [blocks |-> << <<>> >>, cur |-> 1, seen |-> {1},
                  forever |-> {}, posts |-> {}]
    /\ loops = <<>>
    /\ switches = <<>>
    /\ labels = {}
    /\ last_saw_loop = TRUE
    /\ stack = << [k |-> "all", open |-> TRUE, post |-> 0] >>
    /\ result = Running
    /\ budget = n
    /\ nloc = 0
    /\ last = [op |-> "init", loc |-> 0, name |-> "", num |-> 0]
    /\ escapes = {}
    /\ errors = <<>>
    /\ warnings = <<>>
    /\ inserted = <<>>
    /\ removed = <<>>
    /\ ret = [op |-> "new", arg |-> [ok |-> TRUE, es |-> <<>>, v |-> 0,
                                     fallback |-> 0],
              val |-> 0, out |-> <<>>]

\* No for loop is set against its while form.
NoFor == [stmt |-> <<>>, self |-> <<>>, for |-> <<>>, while |-> <<>>]

Init == InitWith(MaxStmts) /\ desugar = NoFor

----------------------------------------------------------------------------
(* compile_all: one turn of its loop.  The vector either holds one more    *)
(* statement, on which compile_stmt is called, or is exhausted.  A for     *)
(* loop's post statement, pushed onto the vector by for_loop, comes last.  *)
(* The frame is open while the vector's length is not yet drawn.           *)
compile_all ==
    /\ AtFrame("all")
    /\ \/ /\ Top.open
          /\ budget > 0
          /\ budget' = budget - 1
          /\ stack' = Append(stack, StmtCall("any", 0))
          /\ UNCHANGED result
       \/ /\ Top.post # 0
          /\ stack' = Append(Rest, StmtCall("post", Top.post))
          /\ UNCHANGED <<result, budget>>
       \/ /\ Top.post = 0
          /\ ReturnOk(Rest)
          /\ UNCHANGED budget
    /\ Step("compile_all", 0)
    /\ UNCHANGED <<builder, loops, switches, labels, last_saw_loop, nloc>>

\* The ? after a nested call: the caller returns the error it was handed.
propagate ==
    /\ result.tag = "Err"
    /\ stack # <<>>
    /\ stack' = Rest
    /\ Step("propagate", 0)
    /\ UNCHANGED <<builder, loops, switches, labels, last_saw_loop, result,
                   budget, nloc>>

\* StmtType::Compound.  A for loop with a post expression hands over its
\* compound body with the post statement pushed onto it ("body"), or a new
\* compound of its other body and the post statement, at the loop's own
\* location ("wrap").
stmt_Compound ==
    /\ AtStmt({"any", "body", "wrap"})
    /\ IF Unreachable("Compound")
       THEN Reject
       ELSE /\ stack' =
                 IF Top.r = "wrap"
                 THEN Rest \o << [k |-> "all", open |-> FALSE, post |-> Top.loc],
                                 StmtCall("other", 0) >>
                 ELSE Append(Rest, [k |-> "all", open |-> TRUE,
                                    post |-> Top.loc])
            /\ UNCHANGED <<builder, loops, switches, labels, last_saw_loop,
                           budget, result>>
    /\ Observe("Compound")

\* declare_stack is called once per declarator and may fail on any of them.
stmt_Decl ==
    /\ AtStmt({"any", "init", "other"})
    /\ \E ok \in BOOLEAN :
        IF Unreachable("Decl")
        THEN Reject
        ELSE /\ IF ok
                THEN /\ builder' = ins(builder, Value)
                     /\ ReturnOk(Rest)
                ELSE /\ ReturnErr(Rest, Err("DeclError", Loc, "stmt", ""))
                     /\ UNCHANGED builder
             /\ UNCHANGED <<loops, switches, labels, last_saw_loop, budget>>
    /\ Observe("Decl")

\* The instructions of a for loop's post expression are put on record, by
\* their block and index.
Post(b) ==
    IF Top.r = "post"
    THEN [b EXCEPT !.posts = @ \cup {<<b.cur, Len(b.blocks[b.cur])>>}]
    ELSE b

stmt_Expr ==
    /\ AtStmt({"any", "init", "other", "post"})
    /\ \E ok \in BOOLEAN :
        IF Unreachable("Expr")
        THEN Reject
        ELSE /\ IF ok
                THEN /\ builder' = Post(ins(builder, Value))
                     /\ ReturnOk(Rest)
                ELSE /\ ReturnErr(Rest, Err("ExprError", Loc, "stmt", ""))
                     /\ UNCHANGED builder
             /\ UNCHANGED <<loops, switches, labels, last_saw_loop, budget>>
    /\ Observe("Expr")

stmt_Return ==
    /\ AtStmt({"any", "other"})
    /\ \E expr \in {"none", "ok", "err"} :
        IF Unreachable("Return")
        THEN Reject
        ELSE /\ IF expr = "err"
                THEN /\ ReturnErr(Rest, Err("ExprError", Loc, "stmt", ""))
                     /\ UNCHANGED builder
                ELSE /\ builder' =
                          ins(IF expr = "ok" THEN ins(builder, Value)
                              ELSE builder, Return)
                     /\ ReturnOk(Rest)
             /\ UNCHANGED <<loops, switches, labels, last_saw_loop, budget>>
    /\ Observe("Return")

----------------------------------------------------------------------------
(* if_stmt, in the three stretches its two nested calls cut it into.       *)

if_stmt ==
    /\ AtStmt({"any", "other"})
    /\ \E ok \in BOOLEAN, otherwise \in BOOLEAN :
        IF Unreachable("If")
        THEN Reject
        ELSE IF ~ok
        THEN /\ ReturnErr(Rest, Err("ExprError", Loc, "cond", ""))
             /\ UNCHANGED <<builder, loops, switches, labels, last_saw_loop,
                            budget>>
        ELSE LET b0 == ins(builder, Value)
                 if_body == NewEbb(b0)
                 end_body == if_body + 1
                 else_body == if_body + 2
                 b1 == create_ebb(create_ebb(b0))
                 b2 == IF otherwise
                       THEN ins(ins(create_ebb(b1), Brz(else_body)),
                                Jump(if_body))
                       ELSE ins(ins(b1, Brz(end_body)), Jump(if_body))
             IN  /\ budget >= (IF otherwise THEN 2 ELSE 1)
                 /\ budget' = budget - (IF otherwise THEN 2 ELSE 1)
                 /\ builder' = switch_to_block(b2, if_body)
                 /\ stack' = Rest \o
                        << [k |-> "if", otherwise |-> otherwise,
                            else_body |-> else_body, end_body |-> end_body],
                           StmtCall("any", 0) >>
                 /\ UNCHANGED <<loops, switches, labels, last_saw_loop,
                                result>>
    /\ Observe("If")

\* After compile_stmt(body) returned Ok.
if_stmt_body_done ==
    /\ AtFrame("if")
    /\ IF Top.otherwise
       THEN LET if_has_return == is_filled(builder)
                b1 == jump_to_block(Top.end_body, builder)
            IN  /\ builder' = switch_to_block(b1, Top.else_body)
                /\ stack' = Rest \o
                       << [k |-> "else", if_has_return |-> if_has_return,
                           end_body |-> Top.end_body],
                          StmtCall("any", 0) >>
                /\ UNCHANGED result
       ELSE /\ builder' = switch_to_block(
                              jump_to_block(Top.end_body, builder),
                              Top.end_body)
            /\ ReturnOk(Rest)
    /\ Step("if_stmt_body_done", 0)
    /\ UNCHANGED <<loops, switches, labels, last_saw_loop, budget, nloc>>

if_stmt_else_done_to_end ==
    /\ AtFrame("else")
    /\ builder' =
         IF ~is_filled(builder)
         THEN switch_to_block(ins(builder, Jump(Top.end_body)), Top.end_body)
         ELSE switch_to_block(builder, Top.end_body)
    /\ ReturnOk(Rest)
    /\ Step("if_stmt_else_done", 0)
    /\ UNCHANGED <<loops, switches, labels, last_saw_loop, budget, nloc>>

\* After compile_stmt(*other) returned Ok.
if_stmt_else_done ==
    /\ AtFrame("else")
    /\ builder' =
         IF ~is_filled(builder)
         THEN switch_to_block(ins(builder, Jump(Top.end_body)), Top.end_body)
         ELSE IF ~Top.if_has_return
         THEN switch_to_block(builder, Top.end_body)
         ELSE builder
    /\ ReturnOk(Rest)
    /\ Step("if_stmt_else_done", 0)
    /\ UNCHANGED <<loops, switches, labels, last_saw_loop, budget, nloc>>

----------------------------------------------------------------------------
(* Loops.                                                                  *)

\* enter_loop on builder b: the builder it leaves.  The caller pushes
\* (loop_body, end_body) = (NewEbb(b), NewEbb(b) + 1) and sets last_saw_loop.
enter_loop(b) ==
    LET loop_body == NewEbb(b)
        b1 == create_ebb(create_ebb(b))
    IN  switch_to_block(ins(b1, Jump(loop_body)), loop_body)

\* A loop entered without a condition (maybe_condition is None): its end
\* block is put on record.
Forever(b, end_body) == [b EXCEPT !.forever = @ \cup {end_body}]

\* exit_loop: what it leaves in self.loops and self.last_saw_loop.
exit_loop_in_loop(lp, old_saw_loop) ==
    [loops |-> SubSeq(lp, 1, Len(lp) - 1), last_saw_loop |-> TRUE]
exit_loop_no_pop(lp, old_saw_loop) ==
    [loops |-> lp, last_saw_loop |-> old_saw_loop]
exit_loop(lp, old_saw_loop) ==
    [loops |-> SubSeq(lp, 1, Len(lp) - 1), last_saw_loop |-> old_saw_loop]

\* The condition of while_stmt, if there is one: its value, the branch to
\* end_body when it is zero, and a new block for the body.
loop_condition_always(b, hasCond, end_body) ==
    fallthrough(ins(ins(b, Value), Brz(end_body)))
loop_condition(b, hasCond, end_body) ==
    IF hasCond THEN fallthrough(ins(ins(b, Value), Brz(end_body))) ELSE b

\* while_stmt(maybe_condition, maybe_body), called by compile_stmt for
\* While and by for_loop.  rest is the stack below the call; body is
\* NoBody or the call compile_stmt(body) that the handler makes.
while_stmt(rest, hasCond, ok, body, location) ==
    LET loop_body == NewEbb(builder)
        end_body == loop_body + 1
        old_saw_loop == last_saw_loop
        b1 == IF hasCond THEN enter_loop(builder)
              ELSE Forever(enter_loop(builder), end_body)
        b2 == loop_condition(b1, hasCond, end_body)
        entered == Append(loops, <<loop_body, end_body>>)
    IN  /\ loops' = IF (hasCond /\ ~ok) \/ body.k # "none"
                    THEN entered
                    ELSE exit_loop(entered, old_saw_loop).loops
        /\ last_saw_loop' = IF (hasCond /\ ~ok) \/ body.k # "none"
                            THEN TRUE
                            ELSE exit_loop(entered, old_saw_loop).last_saw_loop
        /\ IF hasCond /\ ~ok
           THEN /\ builder' = b1
                /\ ReturnErr(rest, Err("ExprError", location, "cond", ""))
           ELSE IF body.k # "none"
           THEN /\ builder' = b2
                /\ stack' = rest \o
                       << [k |-> "while", loop_body |-> loop_body,
                           end_body |-> end_body,
                           old_saw_loop |-> old_saw_loop,
                           hasCond |-> hasCond, location |-> location],
                          body >>
                /\ UNCHANGED result
           ELSE /\ builder' = switch_to_block(jump_to_block(loop_body, b2),
                                              end_body)
                /\ ReturnOk(rest)

stmt_While ==
    /\ AtStmt({"any", "other"})
    /\ \E ok \in BOOLEAN, hasBody \in BOOLEAN :
        IF Unreachable("While")
        THEN Reject
        ELSE /\ budget >= (IF hasBody /\ ok THEN 1 ELSE 0)
             /\ budget' = budget - (IF hasBody /\ ok THEN 1 ELSE 0)
             /\ while_stmt(Rest, TRUE, ok,
                           IF hasBody THEN StmtCall("any", 0) ELSE NoBody,
                           Loc)
             /\ UNCHANGED <<switches, labels>>
    /\ Observe("While")

\* After compile_stmt(body) returned Ok inside while_stmt.
while_stmt_body_done ==
    /\ AtFrame("while")
    /\ builder' = switch_to_block(jump_to_block(Top.loop_body, builder),
                                  Top.end_body)
    /\ loops' = exit_loop(loops, Top.old_saw_loop).loops
    /\ last_saw_loop' = exit_loop(loops, Top.old_saw_loop).last_saw_loop
    /\ ReturnOk(Rest)
    /\ Step("while_stmt_body_done", 0)
    /\ UNCHANGED <<switches, labels, budget, nloc>>

do_loop ==
    /\ AtStmt({"any", "other"})
    /\ IF Unreachable("Do")
       THEN Reject
       ELSE LET loop_body == NewEbb(builder)
                end_body == loop_body + 1
            IN  /\ budget >= 1
                /\ budget' = budget - 1
                /\ builder' = enter_loop(builder)
                /\ loops' = Append(loops, <<loop_body, end_body>>)
                /\ last_saw_loop' = TRUE
                /\ stack' = Rest \o
                       << [k |-> "do", loop_body |-> loop_body,
                           end_body |-> end_body,
                           old_saw_loop |-> last_saw_loop, loc |-> Loc],
                          StmtCall("any", 0) >>
                /\ UNCHANGED <<switches, labels, result>>
    /\ Observe("Do")

do_loop_body_done_unchecked ==
    /\ AtFrame("do")
    /\ \E ok \in BOOLEAN :
        IF ~ok
        THEN /\ ReturnErr(Rest, Err("ExprError", Top.loc, "cond", ""))
             /\ UNCHANGED <<builder, loops, last_saw_loop>>
        ELSE /\ builder' = switch_to_block(
                             jump_to_block(Top.loop_body,
                                 ins(ins(builder, Value), Brz(Top.end_body))),
                             Top.end_body)
             /\ loops' = exit_loop(loops, Top.old_saw_loop).loops
             /\ last_saw_loop' =
                    exit_loop(loops, Top.old_saw_loop).last_saw_loop
             /\ ReturnOk(Rest)
    /\ Step("do_loop_body_done", 0)
    /\ UNCHANGED <<switches, labels, budget, nloc>>

\* After compile_stmt(body) returned Ok inside do_loop.
do_loop_body_done ==
    /\ AtFrame("do")
    /\ \E ok \in BOOLEAN :
        IF is_filled(builder)
        THEN /\ ReturnErr(Rest, Err("UnreachableStatement", Top.loc, "cond", ""))
             /\ UNCHANGED <<builder, loops, last_saw_loop>>
        ELSE IF ~ok
        THEN /\ ReturnErr(Rest, Err("ExprError", Top.loc, "cond", ""))
             /\ UNCHANGED <<builder, loops, last_saw_loop>>
        ELSE /\ builder' = switch_to_block(
                             jump_to_block(Top.loop_body,
                                 ins(ins(builder, Value), Brz(Top.end_body))),
                             Top.end_body)
             /\ loops' = exit_loop(loops, Top.old_saw_loop).loops
             /\ last_saw_loop' =
                    exit_loop(loops, Top.old_saw_loop).last_saw_loop
             /\ ReturnOk(Rest)
    /\ Step("do_loop_body_done", 0)
    /\ UNCHANGED <<switches, labels, budget, nloc>>

\* The body for_loop hands to while_stmt: the loop's body with the post
\* expression spliced in, as a statement at the loop's location.
ForBody(post_loop, body, location) ==
    IF post_loop
    THEN IF body = "compound" THEN StmtCall("body", location)
         ELSE IF body = "other" THEN StmtCall("wrap", location)
         ELSE StmtCall("post", location)
    ELSE IF body = "none" THEN NoBody ELSE StmtCall("any", 0)

for_loop ==
    /\ AtStmt({"any", "other"})
    /\ \E init \in BOOLEAN, condition \in BOOLEAN, post_loop \in BOOLEAN,
          body \in {"none", "compound", "other"}, ok \in BOOLEAN :
        IF Unreachable("For")
        THEN Reject
        ELSE LET cost == (IF init THEN 1 ELSE 0)
                         + (IF body = "none" THEN 0 ELSE 1)
             IN  /\ post_loop \/ body # "compound"
                 /\ budget >= cost
                 /\ budget' = budget - cost
                 /\ IF init
                    THEN /\ ok
                         /\ stack' = Rest \o
                                << [k |-> "for", condition |-> condition,
                                    post_loop |-> post_loop, body |-> body,
                                    location |-> Loc],
                                   StmtCall("init", 0) >>
                         /\ UNCHANGED <<builder, loops, last_saw_loop, result>>
                    ELSE while_stmt(Rest, condition, ok,
                                    ForBody(post_loop, body, Loc), Loc)
                 /\ UNCHANGED <<switches, labels>>
    /\ Observe("For")

\* After compile_stmt(*init) returned Ok inside for_loop.
for_loop_init_done ==
    /\ AtFrame("for")
    /\ \E ok \in BOOLEAN :
        while_stmt(Rest, Top.condition, ok,
                   ForBody(Top.post_loop, Top.body, Top.location),
                   Top.location)
    /\ Step("for_loop_init_done", Top.location)
    /\ UNCHANGED <<switches, labels, budget, nloc>>

----------------------------------------------------------------------------
(* switch, case, default.  A switch context is (Switch, default, end); the *)
(* Switch's entries are a set of <<constant, ebb>>, default is 0 for None. *)

\* Option<Ebb>: 0 is None.
is_some_never(ebb) == FALSE
is_some(ebb) == ebb # 0
HasEntry(sw, constexpr) == \E e \in sw.entries : e[1] = constexpr
LastSwitch == switches[Len(switches)]
SetLast(sw) == [switches EXCEPT ![Len(switches)] = sw]

switch ==
    /\ AtStmt({"any", "other"})
    /\ \E ok \in BOOLEAN :
        IF Unreachable("Switch")
        THEN Reject
        ELSE IF ~ok
        THEN /\ ReturnErr(Rest, Err("ExprError", Loc, "cond", ""))
             /\ UNCHANGED <<builder, loops, switches, labels, last_saw_loop,
                            budget>>
        ELSE LET b0 == ins(builder, Value)
                 dummy_block == NewEbb(b0)
                 start_block == dummy_block + 1
                 end == dummy_block + 2
                 b1 == jump_to_block(dummy_block, create_ebb(b0))
                 b2 == switch_to_block(create_ebb(b1), start_block)
             IN  /\ budget >= 1
                 /\ budget' = budget - 1
                 /\ builder' = create_ebb(b2)
                 /\ last_saw_loop' = FALSE
                 /\ switches' = Append(switches,
                        [entries |-> {}, default |-> 0, end |-> end])
                 /\ stack' = Rest \o
                        << [k |-> "switch", dummy_block |-> dummy_block,
                            end |-> end, entered_with |-> last_saw_loop],
                           StmtCall("any", 0) >>
                 /\ UNCHANGED <<loops, labels, result>>
    /\ Observe("Switch")

\* After compile_stmt(body) returned Ok inside switch.  (entered_with, the
\* flag's value at the call, is on record only: switch() keeps no copy.)
switch_body_done ==
    /\ AtFrame("switch")
    /\ LET sw == LastSwitch
           b1 == switch_to_block(jump_to_block(sw.end, builder),
                                 Top.dummy_block)
           b2 == ins(b1, SwitchEmit(sw.entries,
                         IF sw.default # 0 THEN sw.default ELSE sw.end))
       IN  /\ builder' = switch_to_block(b2, sw.end)
           /\ switches' = SubSeq(switches, 1, Len(switches) - 1)
    /\ ReturnOk(Rest)
    /\ Step("switch_body_done", 0)
    /\ UNCHANGED <<loops, labels, last_saw_loop, budget, nloc>>

\* The tail of case, default and Label: lower the inner statement, if any.
Inner(inner) ==
    IF inner
    THEN /\ budget >= 1
         /\ budget' = budget - 1
         /\ stack' = Append(Rest, StmtCall("any", 0))
         /\ UNCHANGED result
    ELSE /\ ReturnOk(Rest)
         /\ UNCHANGED budget

\* SemanticError::CaseOutsideSwitch { is_default }, at the statement.
CaseOutsideSwitch_not_default(is_default, location) ==
    Err("CaseOutsideSwitch", location, "stmt", "is_default: false")
CaseOutsideSwitch(is_default, location) ==
    Err("CaseOutsideSwitch", location, "stmt",
        IF is_default THEN "is_default: true" ELSE "is_default: false")

\* Switch::set_entry refuses an index that is already set: it asserts.
case ==
    /\ AtStmt({"any", "other"})
    /\ \E constexpr \in Consts, inner \in BOOLEAN :
        /\ Call("Case", "", constexpr)
        /\ IF Unreachable("Case")
           THEN Rejected /\ UNCHANGED <<builder, switches, budget>>
           ELSE IF switches = <<>>
           THEN /\ ReturnErr(Rest, CaseOutsideSwitch(FALSE, Loc))
                /\ UNCHANGED <<builder, switches, budget>>
           ELSE IF is_pristine(builder)
           THEN IF HasEntry(LastSwitch, constexpr)
                THEN /\ result' = Panic("Tried to set the same entry twice")
                     /\ UNCHANGED <<builder, switches, budget, stack>>
                ELSE /\ switches' = SetLast([LastSwitch EXCEPT !.entries =
                                        @ \cup {<<constexpr, builder.cur>>}])
                     /\ UNCHANGED builder
                     /\ Inner(inner)
           ELSE IF HasEntry(LastSwitch, constexpr)
           THEN /\ ReturnErr(Rest, Err("DuplicateCase", Loc, "stmt",
                                     "is_default: false"))
                /\ UNCHANGED <<builder, switches, budget>>
           ELSE LET new == NewEbb(builder)
                IN  /\ switches' = SetLast([LastSwitch EXCEPT !.entries =
                                       @ \cup {<<constexpr, new>>}])
                    /\ builder' = switch_to_block(
                                     jump_to_block(new, create_ebb(builder)),
                                     new)
                    /\ Inner(inner)
    /\ UNCHANGED <<loops, labels, last_saw_loop>>

default ==
    /\ AtStmt({"any", "other"})
    /\ \E inner \in BOOLEAN :
        IF Unreachable("Default")
        THEN Rejected /\ UNCHANGED <<builder, switches, budget>>
        ELSE IF switches = <<>>
        THEN /\ ReturnErr(Rest, CaseOutsideSwitch(TRUE, Loc))
             /\ UNCHANGED <<builder, switches, budget>>
        ELSE IF is_some(LastSwitch.default)
        THEN /\ ReturnErr(Rest, Err("DuplicateCase", Loc, "stmt",
                                   "is_default: true"))
             /\ UNCHANGED <<builder, switches, budget>>
        ELSE LET new == NewEbb(builder)
                 default_ebb == IF is_pristine(builder) THEN builder.cur
                                ELSE new
             IN  /\ builder' =
                       IF is_pristine(builder) THEN builder
                       ELSE switch_to_block(
                                jump_to_block(new, create_ebb(builder)), new)
                 /\ switches' = SetLast([LastSwitch EXCEPT
                                            !.default = default_ebb])
                 /\ Inner(inner)
    /\ Observe("Default")
    /\ UNCHANGED <<loops, labels, last_saw_loop>>

----------------------------------------------------------------------------
(* Labels and jumps.                                                       *)

LabelGet_never(name) == 0
LabelGet(name) ==
    IF \E l \in labels : l[1] = name
    THEN (CHOOSE l \in labels : l[1] = name)[2]
    ELSE 0
LabelInsert_keep(name, ebb) ==
    IF \E l \in labels : l[1] = name THEN labels
    ELSE labels \cup {<<name, ebb>>}
LabelInsert(name, ebb) ==
    {l \in labels : l[1] # name} \cup {<<name, ebb>>}

stmt_Label ==
    /\ AtStmt({"any", "other"})
    /\ \E name \in Names, inner \in BOOLEAN :
        LET new_block == NewEbb(builder)
            previous == LabelGet(name)
        IN  /\ Call("Label", name, 0)
            /\ IF Unreachable("Label")
               THEN Rejected /\ UNCHANGED <<builder, labels, budget>>
               ELSE /\ builder' = switch_to_block(
                            jump_to_block(new_block, create_ebb(builder)),
                            new_block)
                    /\ labels' = LabelInsert(name, new_block)
                    /\ IF is_some(previous)
                       THEN /\ ReturnErr(Rest, ErrEbb("LabelRedeclaration",
                                                      Loc, "stmt", previous))
                            /\ UNCHANGED budget
                       ELSE Inner(inner)
    /\ UNCHANGED <<loops, switches, last_saw_loop>>

stmt_Goto ==
    /\ AtStmt({"any", "other"})
    /\ \E name \in Names :
        /\ Call("Goto", name, 0)
        /\ IF Unreachable("Goto")
           THEN Reject
           ELSE /\ IF is_some(LabelGet(name))
                   THEN /\ builder' = jump_to_block(LabelGet(name), builder)
                        /\ ReturnOk(Rest)
                   ELSE /\ ReturnErr(Rest, Err("UndeclaredLabel", Loc, "stmt",
                                               name))
                        /\ UNCHANGED builder
                /\ UNCHANGED <<loops, switches, labels, last_saw_loop,
                               budget>>

\* StmtType::Break | StmtType::Continue.
loop_exit ==
    /\ AtStmt({"any", "other"})
    /\ \E is_break \in BOOLEAN :
        /\ IF Unreachable(IF is_break THEN "Break" ELSE "Continue")
           THEN Reject
           ELSE /\ IF last_saw_loop
                   THEN IF loops # <<>>
                        THEN /\ builder' = jump_to_block(
                                    IF is_break THEN loops[Len(loops)][2]
                                    ELSE loops[Len(loops)][1], builder)
                             /\ ReturnOk(Rest)
                        ELSE /\ ReturnErr(Rest,
                                    Err("Generic", Loc, "stmt",
                                        IF is_break
                                        THEN "'break' statement not in loop or switch statement"
                                        ELSE "'continue' statement not in loop or switch statement"))
                             /\ UNCHANGED builder
                   ELSE IF ~is_break
                   THEN /\ ReturnErr(Rest, Err("Generic", Loc, "stmt",
                                               "'continue' not in loop"))
                        /\ UNCHANGED builder
                   ELSE IF switches = <<>>
                   THEN /\ result' = Panic(
                              "should be in a switch if last_saw_loop is false")
                        /\ UNCHANGED <<builder, stack>>
                   ELSE /\ builder' = ins(builder, Jump(LastSwitch.end))
                        /\ ReturnOk(Rest)
                /\ UNCHANGED <<loops, switches, labels, last_saw_loop, budget>>
        /\ Observe(IF is_break THEN "Break" ELSE "Continue")

----------------------------------------------------------------------------
Next ==
    \/ compile_all
    \/ propagate
    \/ stmt_Compound
    \/ stmt_Decl
    \/ stmt_Expr
    \/ stmt_Return
    \/ if_stmt
    \/ if_stmt_body_done
    \/ if_stmt_else_done
    \/ stmt_While
    \/ while_stmt_body_done
    \/ do_loop
    \/ do_loop_body_done
    \/ for_loop
    \/ for_loop_init_done
    \/ switch
    \/ switch_body_done
    \/ case
    \/ default
    \/ stmt_Label
    \/ stmt_Goto
    \/ loop_exit

Spec == Init /\ [][Next]_vars

\* Bodies of loops, switches, compounds, expressions, break and continue
\* only, which leaves room for deeper nestings.
InitNest == InitWith(MaxNest) /\ desugar = NoFor

NextNest ==
    \/ compile_all
    \/ propagate
    \/ stmt_Compound
    \/ stmt_Expr
    \/ stmt_While
    \/ while_stmt_body_done
    \/ switch
    \/ switch_body_done
    \/ loop_exit

SpecNest == InitNest /\ [][NextNest]_vars

\* Loops without a condition are for loops; what may follow one in a switch
\* takes one statement more than MaxStmts: the switch, its compound body,
\* the loop and the case.
MaxLoop == 4

InitLoop == InitWith(MaxLoop) /\ desugar = NoFor

NextLoop ==
    \/ compile_all
    \/ propagate
    \/ stmt_Compound
    \/ stmt_Expr
    \/ stmt_Return
    \/ for_loop
    \/ for_loop_init_done
    \/ while_stmt_body_done
    \/ switch
    \/ switch_body_done
    \/ case
    \/ default
    \/ loop_exit

SpecLoop == InitLoop /\ [][NextLoop]_vars

----------------------------------------------------------------------------
(* ErrorHandler and Recover (src/data/error.rs).                           *)

CompileError(kind, data) == [kind |-> kind, data |-> data]

\* E: Into<CompileError>: the From impls of Locatable<String> (a generic
\* semantic error), Locatable<SemanticError>, and the identity.
Into(e) ==
    IF e.type = "CompileError" THEN CompileError(e.kind, e.data)
    ELSE IF e.type = "SemanticError" THEN CompileError("Semantic", e.data)
    ELSE CompileError("Semantic", "Generic: " \o e.data)

push_front(q, e) == <<Into(e)>> \o q
push_back(q, e) == Append(q, Into(e))

\* Option<CompileError> is a sequence of at most one error: <<>> is None.
pop_back(q) ==
    IF q = <<>> THEN [val |-> <<>>, q |-> q]
    ELSE [val |-> <<q[Len(q)]>>, q |-> SubSeq(q, 1, Len(q) - 1)]
pop_front(q) ==
    IF q = <<>> THEN [val |-> <<>>, q |-> q]
    ELSE [val |-> <<Head(q)>>, q |-> Tail(q)]

RECURSIVE extend(_, _)
extend(q, iter) ==
    IF iter = <<>> THEN q
    ELSE extend(Append(q, Into(Head(iter))), Tail(iter))

\* Iterator::collect: next() until it returns None.
RECURSIVE collect(_)
collect(q) ==
    LET n == pop_front(q)
    IN  IF n.val = <<>> THEN <<>> ELSE n.val \o collect(n.q)

\* RecoverableResult<T, E> and RecoverableResult<T, Vec<E>>: Ok(v), or
\* Err((es, fallback)) with es the one error or the vector.
ResultOk(v) == [ok |-> TRUE, es |-> <<>>, v |-> v, fallback |-> 0]
ResultErr(es, fallback) == [ok |-> FALSE, es |-> es, v |-> 0,
                            fallback |-> fallback]

\* Recover::recover for RecoverableResult<T, E>.
recover(r, q) ==
    IF r.ok THEN [val |-> r.v, q |-> q]
    ELSE [val |-> r.fallback, q |-> push_back(q, r.es[1])]

\* Recover::recover for RecoverableResult<T, Vec<E>>.
recover_vec(r, q) ==
    IF r.ok THEN [val |-> r.v, q |-> q]
    ELSE [val |-> r.fallback, q |-> extend(q, r.es)]

\* The Vec<E> of at most n errors.
ErrSeqs(n) == UNION { [1..m -> ErrIn] : m \in 0..n }
Converted(es) == [i \in 1..Len(es) |-> Into(es[i])]
Room == MaxErrs - Len(inserted)
NoArg == ResultOk(0)

\* What an operation was called with and returned: a value (recover) and
\* errors (pop_front, next, collect).
Returned(op, arg, val, out) ==
    ret' = [op |-> op, arg |-> arg, val |-> val, out |-> out]

Idle == UNCHANGED <<builder, loops, switches, labels, last_saw_loop, stack,
                    result, budget, nloc, last, escapes, desugar>>

eh_push_back ==
    /\ Room > 0
    /\ \E e \in ErrIn :
        /\ errors' = push_back(errors, e)
        /\ inserted' = Append(inserted, Into(e))
        /\ Returned("push_back", ResultErr(<<e>>, 0), 0, <<>>)
    /\ UNCHANGED <<warnings, removed>>
    /\ Idle

eh_pop_front ==
    /\ errors' = pop_front(errors).q
    /\ removed' = removed \o pop_front(errors).val
    /\ Returned("pop_front", NoArg, 0, pop_front(errors).val)
    /\ UNCHANGED <<warnings, inserted>>
    /\ Idle

\* Iterator::next is pop_front.
eh_next ==
    /\ errors' = pop_front(errors).q
    /\ removed' = removed \o pop_front(errors).val
    /\ Returned("next", NoArg, 0, pop_front(errors).val)
    /\ UNCHANGED <<warnings, inserted>>
    /\ Idle

\* collect() on the handler: what next() yields is taken out of the queue.
eh_collect ==
    /\ errors' = SubSeq(errors, Len(collect(errors)) + 1, Len(errors))
    /\ removed' = removed \o collect(errors)
    /\ Returned("collect", NoArg, 0, collect(errors))
    /\ UNCHANGED <<warnings, inserted>>
    /\ Idle

eh_warn ==
    /\ Len(warnings) < MaxErrs
    /\ warnings' = Append(warnings, "Generic: warning")
    /\ Returned("warn", NoArg, 0, <<>>)
    /\ UNCHANGED <<errors, inserted, removed>>
    /\ Idle

eh_extend ==
    /\ \E es \in ErrSeqs(Room) :
        /\ errors' = extend(errors, es)
        /\ inserted' = inserted \o Converted(es)
        /\ Returned("extend", ResultErr(es, 0), 0, <<>>)
    /\ UNCHANGED <<warnings, removed>>
    /\ Idle

eh_recover ==
    /\ \E r \in {ResultOk(v) : v \in RetVals}
              \cup {ResultErr(<<e>>, v) :
                      e \in IF Room > 0 THEN ErrIn ELSE {}, v \in RetVals} :
        /\ errors' = recover(r, errors).q
        /\ inserted' = inserted \o (IF r.ok THEN <<>> ELSE Converted(r.es))
        /\ Returned("recover", r, recover(r, errors).val, <<>>)
    /\ UNCHANGED <<warnings, removed>>
    /\ Idle

eh_recover_vec ==
    /\ \E r \in {ResultOk(v) : v \in RetVals}
              \cup {ResultErr(es, v) : es \in ErrSeqs(Room), v \in RetVals} :
        /\ errors' = recover_vec(r, errors).q
        /\ inserted' = inserted \o (IF r.ok THEN <<>> ELSE Converted(r.es))
        /\ Returned("recover_vec", r, recover_vec(r, errors).val, <<>>)
    /\ UNCHANGED <<warnings, removed>>
    /\ Idle

NextErr ==
    \/ eh_push_back
    \/ eh_pop_front
    \/ eh_next
    \/ eh_collect
    \/ eh_warn
    \/ eh_extend
    \/ eh_recover
    \/ eh_recover_vec

SpecErr == Init /\ [][NextErr]_vars

----------------------------------------------------------------------------
(* The lexical context of a call, read off the call stack: the loops and   *)
(* switches whose handlers are waiting for their body.                     *)

LoopFrames == {"while", "do"}
Enclosing(st) == {i \in 1..Len(st) : st[i].k \in LoopFrames \cup {"switch"}}
Innermost(st) ==
    st[CHOOSE i \in Enclosing(st) : \A j \in Enclosing(st) : j <= i]
NLoop(st) == Cardinality({i \in 1..Len(st) : st[i].k \in LoopFrames})
NSwitch(st) == Cardinality({i \in 1..Len(st) : st[i].k = "switch"})
EndOf(frame) == IF frame.k = "switch" THEN frame.end ELSE frame.end_body

\* This step is a call compile_stmt(stmt); last' tells the statement.
IsCall ==
    /\ result.tag = "Running"
    /\ stack # <<>>
    /\ Top.k = "stmt"
    /\ last' # last
IsCallOf(ops) == IsCall /\ last'.op \in ops

\* This step is an operation of the ErrorHandler.
IsOp(ops) ==
    /\ <<errors, warnings, inserted, removed, ret>>' #
           <<errors, warnings, inserted, removed, ret>>
    /\ ret'.op \in ops

----------------------------------------------------------------------------
(* C1: compile_stmt returns UnreachableStatement at the statement's own    *)
(* location, with nothing emitted, exactly when the current block is       *)
(* filled on entry and the statement is no Case, Default or Label; no      *)
(* other step makes that error; and once an error is returned nothing more *)
(* is lowered and what was emitted stays.                                  *)
C1_UnreachableIffFilled ==
    [][ /\ IsCall =>
             ( (is_filled(builder) /\ last'.op \notin {"Case", "Default", "Label"})
               <=> ( /\ result' = Err("UnreachableStatement", last'.loc, "stmt", "")
                     /\ builder' = builder ) )
        /\ ( /\ result.tag = "Running"
             /\ result'.kind = "UnreachableStatement"
             /\ result'.at = "stmt" ) => IsCall
        /\ IsCallOf({"Case", "Default", "Label"}) =>
             result'.kind # "UnreachableStatement"
        /\ result.tag = "Err" =>
             /\ result' = result
             /\ builder' = builder
             /\ nloc' = nloc
             /\ labels' = labels
      ]_vars

\* compile_all has returned UnreachableStatement for the statement after a
\* terminator, and the blocks of the statements before it are there.
C1_Witness ==
    /\ result.tag = "Err"
    /\ result.kind = "UnreachableStatement"
    /\ result.at = "stmt"
    /\ stack = <<>>
    /\ result.loc >= 2
    /\ is_filled(builder)

(* C2: a break that is not rejected and is lexically inside a loop or a    *)
(* switch emits a jump to the end block of the innermost one; a continue   *)
(* whose innermost construct is a loop emits a jump to its loop_body.      *)
C2_BreakContinueInnermost ==
    [][ ( /\ IsCallOf({"Break", "Continue"})
          /\ ~is_filled(builder)
          /\ Enclosing(stack) # {} ) =>
           /\ last'.op = "Break" =>
                builder' = ins(builder, Jump(EndOf(Innermost(stack))))
           /\ (last'.op = "Continue" /\ Innermost(stack).k \in LoopFrames) =>
                builder' = ins(builder, Jump(Innermost(stack).loop_body))
      ]_vars

(* C3: a break or continue with no loop and no switch around it, both      *)
(* context stacks empty, returns an error and emits nothing.               *)
C3_OutsideIsError ==
    [][ ( /\ IsCallOf({"Break", "Continue"})
          /\ Enclosing(stack) = {}
          /\ loops = <<>>
          /\ switches = <<>> ) =>
           /\ result'.tag = "Err"
           /\ builder' = builder
      ]_vars

(* C4: directly inside a switch that no loop encloses, a break that is not *)
(* rejected emits a jump to that switch's end block, which fills the       *)
(* current block, and a continue returns "'continue' not in loop" and      *)
(* emits nothing.                                                          *)
C4_SwitchOutsideLoop ==
    [][ ( /\ IsCallOf({"Break", "Continue"})
          /\ ~is_filled(builder)
          /\ NLoop(stack) = 0
          /\ NSwitch(stack) > 0 ) =>
           /\ last'.op = "Break" =>
                /\ builder' = ins(builder, Jump(Innermost(stack).end))
                /\ is_filled(builder')
                /\ result'.tag = "Running"
           /\ last'.op = "Continue" =>
                /\ result' = Err("Generic", last'.loc, "stmt",
                                 "'continue' not in loop")
                /\ builder' = builder
      ]_vars

\* A break has jumped to the end of a switch after a loop inside that
\* switch was lowered completely.
C4_Witness ==
    /\ last.op = "Break"
    /\ result.tag = "Running"
    /\ NLoop(stack) = 0
    /\ NSwitch(stack) = 1
    /\ loops = <<>>
    /\ is_filled(builder)
    /\ builder.blocks[builder.cur][Len(builder.blocks[builder.cur])]
         = Jump(Innermost(stack).end)
    /\ \E b \in 1..Len(builder.blocks) :
         /\ b > Innermost(stack).end
         /\ \E i \in 1..Len(builder.blocks[b]) : builder.blocks[b][i].op = "brz"

(* C5: a Case whose constant is already recorded in the innermost switch   *)
(* context returns DuplicateCase{is_default: false} and leaves the table   *)
(* as it is, whatever the state of the current block.                      *)
C5_DuplicateCase ==
    [][ ( /\ IsCallOf({"Case"})
          /\ switches # <<>>
          /\ HasEntry(LastSwitch, last'.num) ) =>
           /\ result' = Err("DuplicateCase", last'.loc, "stmt",
                            "is_default: false")
           /\ switches' = switches
      ]_vars

(* C6: a Default in a switch context whose default slot is set returns     *)
(* DuplicateCase{is_default: true}, creates no block and leaves the        *)
(* contexts alone; a default slot, once set, keeps its block.              *)
C6_SecondDefault ==
    [][ /\ ( /\ IsCallOf({"Default"})
             /\ switches # <<>>
             /\ LastSwitch.default # 0 ) =>
              /\ result' = Err("DuplicateCase", last'.loc, "stmt",
                               "is_default: true")
              /\ builder' = builder
              /\ switches' = switches
        /\ \A i \in 1..Len(switches) :
              ( /\ i <= Len(switches')
                /\ switches'[i].end = switches[i].end
                /\ switches[i].default # 0 ) =>
                 switches'[i].default = switches[i].default
      ]_vars

C6_Witness ==
    /\ result.tag = "Err"
    /\ result.kind = "DuplicateCase"
    /\ result.info = "is_default: true"
    /\ switches # <<>>
    /\ LastSwitch.default # 0

(* C7: the errors taken out of the ErrorHandler, followed by those still   *)
(* queued, are the errors put in, in the order they were put in; pop_front *)
(* and next return the oldest error, or nothing from an empty queue;       *)
(* collecting the handler returns all that is queued, oldest first, and    *)
(* leaves the queue empty.                                                 *)
C7_Fifo ==
    [][ /\ inserted' = removed' \o errors'
        /\ IsOp({"pop_front", "next"}) =>
             IF errors = <<>>
             THEN ret'.out = <<>> /\ errors' = <<>>
             ELSE ret'.out = <<Head(errors)>> /\ errors' = Tail(errors)
        /\ IsOp({"collect"}) => (ret'.out = errors /\ errors' = <<>>)
        /\ IsOp({"push_back"}) =>
             errors' = Append(errors, Into(ret'.arg.es[1]))
        /\ IsOp({"extend"}) => errors' = errors \o Converted(ret'.arg.es)
      ]_vars

\* Two equal errors were queued and both came out, and a third, different
\* one after them.
C7_Witness ==
    /\ ret.op = "collect"
    /\ Len(ret.out) = 3
    /\ ret.out[1] = ret.out[2]
    /\ ret.out[3] # ret.out[1]
    /\ errors = <<>>
    /\ removed = inserted

(* C8: recover on Ok(v) returns v and leaves the ErrorHandler as it is;    *)
(* on Err((e, fallback)) it returns fallback and appends e; on             *)
(* Err((es, fallback)) it returns fallback and appends the elements of es  *)
(* in order, after the errors already queued.                              *)
C8_Recover ==
    [][ IsOp({"recover", "recover_vec"}) =>
          /\ warnings' = warnings
          /\ IF ret'.arg.ok
             THEN ret'.val = ret'.arg.v /\ errors' = errors
             ELSE /\ ret'.val = ret'.arg.fallback
                  /\ errors' = errors \o Converted(ret'.arg.es)
      ]_vars

\* A vector of two errors was recovered into a queue that held one.
C8_Witness ==
    /\ ret.op = "recover_vec"
    /\ ~ret.arg.ok
    /\ Len(ret.arg.es) = 2
    /\ ret.arg.es[1] # ret.arg.es[2]
    /\ ret.val = 42
    /\ Len(errors) = 3

(* C9: when the lowering of a loop or switch has returned an error, the    *)
(* context it pushed is popped: the loop stack and the switch stack hold   *)
(* the contexts of the constructs that have not returned yet, and no more. *)
C9_ContextsReleasedOnError ==
    result.tag = "Err" =>
        /\ Len(loops) = NLoop(stack)
        /\ Len(switches) = NSwitch(stack)

----------------------------------------------------------------------------
(* The emitted graph.                                                      *)

Ebbs(b) == 1..Len(b.blocks)
\* Sequence p is the beginning of sequence q.
IsPrefix(p, q) == Len(p) <= Len(q) /\ SubSeq(q, 1, Len(p)) = p
\* A block holds at most one terminator, and nothing after it.
Terminated(block) ==
    \A i \in 1..Len(block) : block[i].op \in Terminators => i = Len(block)

Targets(inst) ==
    IF inst.op \in {"jump", "brz"} THEN {inst.to}
    ELSE IF inst.op = "switch" THEN {inst.to} \cup {e[2] : e \in inst.table}
    ELSE {}
\* Block ebb is the target of an emitted jump, branch-if-zero or jump table.
Targeted(b, ebb) ==
    \E e \in Ebbs(b) : \E i \in 1..Len(b.blocks[e]) :
        ebb \in Targets(b.blocks[e][i])

\* switch() creates dummy_block, start_block and end in a row, and emits
\* the jump table into dummy_block.
Dummies(b) ==
    {d \in Ebbs(b) : \E i \in 1..Len(b.blocks[d]) : b.blocks[d][i].op = "switch"}
SwitchStarts(b) == {d + 1 : d \in Dummies(b)}
\* The end blocks of the switches that have a default: the table's fallback
\* is the default block, not the end block.
DefaultedSwitchEnds(b) ==
    {d + 2 : d \in {x \in Dummies(b) : b.blocks[x][1].to # x + 2}}
LabelBlocks == {l[2] : l \in labels}

C13_Goto ==
    [][ ( /\ IsCallOf({"Goto"})
          /\ ~is_filled(builder) ) =>
           /\ labels' = labels
           /\ \A l \in labels : l[1] = last'.name =>
                /\ builder' = ins(builder, Jump(l[2]))
                /\ is_filled(builder')
                /\ stack' = Rest
                /\ result'.tag \in {"Running", "Ok"}
           /\ (\A l \in labels : l[1] # last'.name) =>
                /\ result' = Err("UndeclaredLabel", last'.loc, "stmt",
                                 last'.name)
                /\ builder' = builder
      ]_vars

\* A goto has jumped back to a label that was lowered in an earlier block.
C13_Witness ==
    /\ last.op = "Goto"
    /\ result.tag \in {"Running", "Ok"}
    /\ \E l \in labels :
         /\ l[1] = last.name
         /\ l[2] # builder.cur
         /\ builder.blocks[builder.cur][Len(builder.blocks[builder.cur])]
              = Jump(l[2])

\* This step is the return of a nested call into the handler of frame k.
IsReturnInto(k) == AtFrame(k) /\ stack' # stack

(* C14: when the body of a do-while leaves the current block filled,       *)
(* do_loop returns UnreachableStatement at the condition and emits         *)
(* nothing more; otherwise it lowers the condition and, unless that fails, *)
(* emits branch-if-zero to the end block and a jump back to loop_body.     *)
C14_DoWhileCondition ==
    [][ IsReturnInto("do") =>
          /\ BlockFilled(builder, builder.cur) =>
               /\ result' = Err("UnreachableStatement", Top.loc, "cond", "")
               /\ builder' = builder
          /\ ~BlockFilled(builder, builder.cur) =>
               \/ /\ result' = Err("ExprError", Top.loc, "cond", "")
                  /\ builder' = builder
               \/ /\ result'.tag # "Err"
                  /\ builder'.blocks[builder.cur] =
                        builder.blocks[builder.cur] \o
                            <<Value, Brz(Top.end_body), Jump(Top.loop_body)>>
                  /\ builder'.cur = Top.end_body
      ]_vars

\* do { return; } while (e), after an earlier statement: the error is at the
\* condition of the do-while, whose body is the statement drawn last.
C14_Witness ==
    /\ result = Err("UnreachableStatement", result.loc, "cond", "")
    /\ last.op = "do_loop_body_done"
    /\ result.loc >= 2
    /\ nloc = result.loc + 1
    /\ builder.blocks[builder.cur][Len(builder.blocks[builder.cur])] = Return

(* C15: an if with else leaves the insertion point on a filled block       *)
(* exactly when the then-branch and the else-branch both ended with their  *)
(* block filled, and otherwise on the end block, which is open; an if      *)
(* without else always ends on the open end block.                         *)
C15_IfElseEnd ==
    [][ /\ (IsReturnInto("if") /\ Top.otherwise) =>
             /\ stack'[Len(stack') - 1].if_has_return
                    = BlockFilled(builder, builder.cur)
             /\ stack'[Len(stack') - 1].end_body = Top.end_body
        /\ (IsReturnInto("if") /\ ~Top.otherwise) =>
             /\ builder'.cur = Top.end_body
             /\ ~BlockFilled(builder', Top.end_body)
             /\ result'.tag # "Err"
        /\ IsReturnInto("else") =>
             /\ result'.tag # "Err"
             /\ BlockFilled(builder', builder'.cur)
                    <=> (Top.if_has_return /\ BlockFilled(builder, builder.cur))
             /\ ~(Top.if_has_return /\ BlockFilled(builder, builder.cur)) =>
                    /\ builder'.cur = Top.end_body
                    /\ ~BlockFilled(builder', Top.end_body)
      ]_vars

\* Both branches of an if/else ended with a return, and the insertion point
\* is still the filled block of the else-branch.
C15_Witness ==
    /\ last.op = "if_stmt_else_done"
    /\ result.tag \in {"Running", "Ok"}
    /\ is_filled(builder)
    /\ Cardinality({e \in Ebbs(builder) : builder.blocks[e] = <<Return>>}) = 2

\* The position on the call stack of the innermost loop or switch.
InnermostAt(st) == CHOOSE i \in Enclosing(st) : \A j \in Enclosing(st) : j <= i
\* The innermost construct around the call is a loop with a condition whose
\* body for_loop has spliced a post expression into.
InForWithPost(st) ==
    /\ Enclosing(st) # {}
    /\ st[InnermostAt(st)].k = "while"
    /\ st[InnermostAt(st)].hasCond
    /\ st[InnermostAt(st) + 1].k = "all"
    /\ st[InnermostAt(st) + 1].post # 0
\* while_stmt lowers the condition into loop_body itself, in front of the
\* branch-if-zero to end_body: control that enters loop_body runs the post
\* expression before the condition if an instruction of it stands there.
PostBeforeCondition(b, loop_body, end_body) ==
    \E i \in 1..Len(b.blocks[loop_body]) :
        /\ b.blocks[loop_body][i] = Brz(end_body)
        /\ \E j \in 1..(i - 1) : <<loop_body, j>> \in b.posts

(* C16: a continue directly inside a for loop that has a condition and a   *)
(* post expression jumps to loop_body, and control that follows the jump   *)
(* runs the post expression before it evaluates the condition again.       *)
C16_ContinueRunsPost ==
    [][ ( /\ IsCallOf({"Continue"})
          /\ ~is_filled(builder)
          /\ InForWithPost(stack) ) =>
           /\ builder' = ins(builder, Jump(Innermost(stack).loop_body))
           /\ PostBeforeCondition(builder', Innermost(stack).loop_body,
                                  Innermost(stack).end_body)
      ]_vars

(* C17: while no error has been returned, the loop stack and the switch    *)
(* stack hold one context for each while_stmt, do_loop and switch that is  *)
(* waiting for its body, and a step leaves the callers' frames alone: so   *)
(* when compile_stmt returns Ok both stacks have the depth they had at the *)
(* call, and both are empty when the function body has been lowered.       *)
C17_StacksBalanced ==
    [][ result'.tag \in {"Running", "Ok"} =>
          /\ Len(loops') = NLoop(stack')
          /\ Len(switches') = NSwitch(stack')
          /\ IsPrefix(Rest, stack')
          /\ result'.tag = "Ok" => (loops' = <<>> /\ switches' = <<>>)
      ]_vars

\* A loop inside a switch has been lowered, and the function body with it.
C17_Witness ==
    /\ result.tag = "Ok"
    /\ loops = <<>>
    /\ switches = <<>>
    /\ \E d \in Dummies(builder) : \E e \in Ebbs(builder) :
         /\ e > d
         /\ \E i \in 1..Len(builder.blocks[e]) : builder.blocks[e][i].op = "brz"

(* C18: when the lowering of a while, do-while, for or switch returns Ok,   *)
(* last_saw_loop has the value it had when the construct was entered.      *)
C18_FlagRestored ==
    [][ result'.tag # "Err" =>
          /\ (IsReturnInto("while") \/ IsReturnInto("do")) =>
                last_saw_loop' = Top.old_saw_loop
          /\ IsReturnInto("switch") => last_saw_loop' = Top.entered_with
          /\ ( /\ IsCallOf({"While", "For"}) \/ IsReturnInto("for")
               /\ stack' = Rest ) =>
                last_saw_loop' = last_saw_loop
      ]_vars

\* The blocks control can get to from the blocks of S.
Succ(b, ebb) == UNION {Targets(b.blocks[ebb][i]) : i \in 1..Len(b.blocks[ebb])}
RECURSIVE Reach(_, _)
Reach(b, S) ==
    LET T == S \cup UNION {Succ(b, e) : e \in S}
    IN  IF T = S THEN S ELSE Reach(b, T)
\* The instructions of the graph, by block and index, and those of them
\* that this step has emitted.
Insts(b) == UNION {{<<e, i>> : i \in 1..Len(b.blocks[e])} : e \in Ebbs(b)}
Emitted ==
    {p \in Insts(builder') :
        p[1] \in Ebbs(builder) => p[2] > Len(builder.blocks[p[1]])}
\* The end block of the loop without condition that this step enters.
Entered == builder'.forever \ builder.forever

(* C20: a loop without condition is entered with a jump to loop_body and   *)
(* nothing else: no branch-if-zero, no block besides loop_body and the end *)
(* block; its body ends with a jump back to loop_body unless its block is  *)
(* filled; only a break emits an instruction that names its end block; and *)
(* when the body holds no break, return or goto, control that enters       *)
(* loop_body stays in the blocks of the loop: it reaches neither the end   *)
(* block, nor an earlier block, nor a return, nor an open block.           *)
C20_LoopWithoutCondition ==
    [][ /\ \A end_body \in Entered :
             /\ Len(builder'.blocks) = Len(builder.blocks) + 2
             /\ end_body = Len(builder'.blocks)
             /\ builder'.blocks[builder.cur] =
                    Append(builder.blocks[builder.cur], Jump(end_body - 1))
             /\ \A p \in Emitted : builder'.blocks[p[1]][p[2]].op = "jump"
             /\ builder'.blocks[end_body] = <<>>
        /\ (IsReturnInto("while") /\ ~Top.hasCond) =>
             /\ Top.end_body \in builder.forever
             /\ builder' = switch_to_block(
                               IF BlockFilled(builder, builder.cur) THEN builder
                               ELSE ins(builder, Jump(Top.loop_body)),
                               Top.end_body)
             /\ {l \in escapes : l > Top.location} = {} =>
                  \A e \in Reach(builder', {Top.loop_body}) :
                      /\ e >= Top.loop_body
                      /\ e # Top.end_body
                      /\ BlockFilled(builder', e)
                      /\ \A i \in 1..Len(builder'.blocks[e]) :
                             builder'.blocks[e][i].op # "return"
        /\ \A p \in Emitted :
             Targets(builder'.blocks[p[1]][p[2]]) \cap builder'.forever # {} =>
                 /\ IsCallOf({"Break"})
                 /\ builder'.blocks[p[1]][p[2]].op = "jump"
      ]_vars

\* The blocks a switch context has a case or a default for.
Labelled(sw) ==
    {e[2] : e \in sw.entries} \cup (IF sw.default # 0 THEN {sw.default} ELSE {})

(* C20, amended: as above, but the end block of a loop without a condition *)
(* is the target of the jump of a break or of the jump table of a switch:  *)
(* a case or default label that directly follows the loop takes the end    *)
(* block, still pristine, as its own block.                                *)
C20_EndByBreakOrCase ==
    [][ /\ \A end_body \in Entered :
             /\ Len(builder'.blocks) = Len(builder.blocks) + 2
             /\ end_body = Len(builder'.blocks)
             /\ builder'.blocks[builder.cur] =
                    Append(builder.blocks[builder.cur], Jump(end_body - 1))
             /\ \A p \in Emitted : builder'.blocks[p[1]][p[2]].op = "jump"
             /\ builder'.blocks[end_body] = <<>>
        /\ (IsReturnInto("while") /\ ~Top.hasCond) =>
             /\ Top.end_body \in builder.forever
             /\ builder' = switch_to_block(
                               IF BlockFilled(builder, builder.cur) THEN builder
                               ELSE ins(builder, Jump(Top.loop_body)),
                               Top.end_body)
             /\ {l \in escapes : l > Top.location} = {} =>
                  \A e \in Reach(builder', {Top.loop_body}) :
                      /\ e >= Top.loop_body
                      /\ e # Top.end_body
                      /\ BlockFilled(builder', e)
                      /\ \A i \in 1..Len(builder'.blocks[e]) :
                             builder'.blocks[e][i].op # "return"
        /\ \A p \in Emitted :
             LET inst == builder'.blocks[p[1]][p[2]]
             IN  Targets(inst) \cap builder'.forever # {} =>
                     \/ IsCallOf({"Break"}) /\ inst.op = "jump"
                     \/ /\ inst.op = "switch"
                        /\ switches # <<>>
                        /\ Targets(inst) \cap builder'.forever
                               \subseteq Labelled(LastSwitch)
        /\ \A i \in 1..Len(switches') :
             \A e \in Labelled(switches'[i]) \cap builder'.forever :
                 \/ i <= Len(switches) /\ e \in Labelled(switches[i])
                 \/ /\ IsCallOf({"Case", "Default"})
                    /\ e = builder.cur
                    /\ builder.blocks[e] = <<>>
      ]_vars

\* switch (x) { for (;;) ; case 1: ; } has been lowered: the end block of
\* the loop is in the jump table of the switch, and no jump leads to it.
C20_Witness ==
    /\ result.tag = "Ok"
    /\ \E end_body \in builder.forever :
         /\ \E p \in Insts(builder) :
              /\ builder.blocks[p[1]][p[2]].op = "switch"
              /\ end_body \in {e[2] : e \in builder.blocks[p[1]][p[2]].table}
         /\ \A p \in Insts(builder) :
              builder.blocks[p[1]][p[2]].op = "jump" =>
                  builder.blocks[p[1]][p[2]].to # end_body

----------------------------------------------------------------------------
(* for_loop and the while loop it stands for.  The handlers above are the  *)
(* steps of one run.  To set two runs side by side the handlers are given  *)
(* here a second time, as functions from the state of the lowerer before a *)
(* call to the state after it, over statements that are values.  Locations *)
(* are left out: an error is its kind and its payload.                     *)

\* Option<T>.
None == <<>>
Some(x) == <<x>>

\* Stmt.  An expression or declaration either lowers (ok) or fails.
Leaf(data, ok, name) == [data |-> data, ok |-> ok, name |-> name]
Compound(stmts) == [data |-> "Compound", stmts |-> stmts]
While(condition, maybe_body) ==
    [data |-> "While", condition |-> condition, body |-> maybe_body]
For(init, condition, post_loop, body) ==
    [data |-> "For", init |-> init, condition |-> condition,
     post_loop |-> post_loop, body |-> body]
Switch(condition, body) ==
    [data |-> "Switch", condition |-> condition, body |-> body]

\* The Compiler and its FunctionBuilder, and what the last call returned.
Lowerer(b, lp, sw, lb, saw) ==
    [builder |-> b, loops |-> lp, switches |-> sw, labels |-> lb,
     last_saw_loop |-> saw, result |-> Ok]
Fail(self, kind, info) == [self EXCEPT !.result = Err(kind, 0, "", info)]
Emit(self, b) == [self EXCEPT !.builder = b]

\* compile_expr: the value of an expression, or its error.
compile_expr_in(ok, self) ==
    IF ok THEN Emit(self, ins(self.builder, Value))
    ELSE Fail(self, "ExprError", "")

loop_exit_in(is_break, self) ==
    IF self.last_saw_loop
    THEN IF self.loops # <<>>
         THEN Emit(self, jump_to_block(
                  IF is_break THEN self.loops[Len(self.loops)][2]
                  ELSE self.loops[Len(self.loops)][1], self.builder))
         ELSE Fail(self, "Generic",
                   IF is_break
                   THEN "'break' statement not in loop or switch statement"
                   ELSE "'continue' statement not in loop or switch statement")
    ELSE IF ~is_break THEN Fail(self, "Generic", "'continue' not in loop")
    ELSE IF self.switches = <<>>
    THEN [self EXCEPT !.result =
              Panic("should be in a switch if last_saw_loop is false")]
    ELSE Emit(self, ins(self.builder,
                        Jump(self.switches[Len(self.switches)].end)))

\* StmtType::Label(name, None).
stmt_Label_in(name, self) ==
    LET new_block == NewEbb(self.builder)
        b1 == switch_to_block(
                  jump_to_block(new_block, create_ebb(self.builder)),
                  new_block)
        previous == {l \in self.labels : l[1] = name}
        inserted_ == [Emit(self, b1) EXCEPT
                         !.labels = (@ \ previous) \cup {<<name, new_block>>}]
    IN  IF previous # {}
        THEN [inserted_ EXCEPT !.result =
                 ErrEbb("LabelRedeclaration", 0, "",
                        (CHOOSE l \in previous : TRUE)[2])]
        ELSE inserted_

stmt_Goto_in(name, self) ==
    LET found == {l \in self.labels : l[1] = name}
    IN  IF found # {}
        THEN Emit(self, jump_to_block((CHOOSE l \in found : TRUE)[2],
                                      self.builder))
        ELSE Fail(self, "UndeclaredLabel", name)

RECURSIVE compile_stmt_in(_, _)

RECURSIVE compile_all_in(_, _)
compile_all_in(stmts, self) ==
    IF stmts = <<>> THEN self
    ELSE LET after == compile_stmt_in(Head(stmts), self)
         IN  IF after.result # Ok THEN after
             ELSE compile_all_in(Tail(stmts), after)

\* enter_loop, on the whole lowerer.
enter_loop_in(self) ==
    [self EXCEPT !.builder = enter_loop(@),
                 !.loops = Append(@, <<NewEbb(self.builder),
                                       NewEbb(self.builder) + 1>>),
                 !.last_saw_loop = TRUE]

\* while_stmt up to its call of compile_stmt(body), the condition being ok.
while_stmt_enter(hasCond, self) ==
    Emit(enter_loop_in(self),
         loop_condition(enter_loop(self.builder), hasCond,
                        NewEbb(self.builder) + 1))

while_stmt_in(maybe_condition, maybe_body, self) ==
    LET loop_body == NewEbb(self.builder)
        end_body == loop_body + 1
        old_saw_loop == self.last_saw_loop
        hasCond == maybe_condition # None
        entered == enter_loop_in(self)
        tested == while_stmt_enter(hasCond, self)
        done == IF maybe_body # None
                THEN compile_stmt_in(maybe_body[1], tested)
                ELSE tested
        left == exit_loop(done.loops, old_saw_loop)
    IN  IF hasCond /\ ~maybe_condition[1]
        THEN Fail(entered, "ExprError", "")
        ELSE IF done.result # Ok THEN done
        ELSE [done EXCEPT
                 !.builder = switch_to_block(jump_to_block(loop_body, @),
                                             end_body),
                 !.loops = left.loops,
                 !.last_saw_loop = left.last_saw_loop]

\* The body for_loop hands to while_stmt (stmt.rs:223-243).
splice_post_dropped(post_loop, body) == body
splice_post(post_loop, body) ==
    IF post_loop # None
    THEN LET post == Leaf("Expr", post_loop[1], "")
         IN  IF body # None /\ body[1].data = "Compound"
             THEN Some(Compound(Append(body[1].stmts, post)))
             ELSE IF body # None
             THEN Some(Compound(<<body[1], post>>))
             ELSE Some(post)
    ELSE body

for_loop_in(init, condition, post_loop, body, self) ==
    LET begun == IF init # None THEN compile_stmt_in(init[1], self) ELSE self
    IN  IF begun.result # Ok THEN begun
        ELSE while_stmt_in(condition, splice_post(post_loop, body), begun)

\* switch up to its call of compile_stmt(body), the condition being ok.
switch_enter(self) ==
    LET b0 == ins(self.builder, Value)
        dummy_block == NewEbb(b0)
        b1 == jump_to_block(dummy_block, create_ebb(b0))
        b2 == switch_to_block(create_ebb(b1), dummy_block + 1)
    IN  [self EXCEPT
            !.builder = create_ebb(b2),
            !.last_saw_loop = FALSE,
            !.switches = Append(@, [entries |-> {}, default |-> 0,
                                    end |-> dummy_block + 2])]

switch_in(condition, body, self) ==
    LET dummy_block == NewEbb(self.builder)
        done == compile_stmt_in(body, switch_enter(self))
        sw == done.switches[Len(done.switches)]
        b1 == switch_to_block(jump_to_block(sw.end, done.builder),
                              dummy_block)
        b2 == ins(b1, SwitchEmit(sw.entries,
                      IF sw.default # 0 THEN sw.default ELSE sw.end))
    IN  IF ~condition THEN Fail(self, "ExprError", "")
        ELSE IF done.result # Ok THEN done
        ELSE [done EXCEPT
                 !.builder = switch_to_block(b2, sw.end),
                 !.switches = SubSeq(@, 1, Len(@) - 1)]

compile_stmt_in(stmt, self) ==
    IF is_filled(self.builder) /\ ~is_jump_target(stmt.data)
    THEN Fail(self, "UnreachableStatement", "")
    ELSE CASE stmt.data = "Compound" -> compile_all_in(stmt.stmts, self)
           [] stmt.data = "Decl" ->
                  IF stmt.ok THEN Emit(self, ins(self.builder, Value))
                  ELSE Fail(self, "DeclError", "")
           [] stmt.data = "Expr" -> compile_expr_in(stmt.ok, self)
           [] stmt.data = "Return" -> Emit(self, ins(self.builder, Return))
           [] stmt.data = "While" ->
                  while_stmt_in(Some(stmt.condition), stmt.body, self)
           [] stmt.data \in {"Break", "Continue"} ->
                  loop_exit_in(stmt.data = "Break", self)
           [] stmt.data = "For" ->
                  for_loop_in(stmt.init, stmt.condition, stmt.post_loop,
                              stmt.body, self)
           [] stmt.data = "Switch" ->
                  switch_in(stmt.condition, stmt.body, self)
           [] stmt.data = "Label" -> stmt_Label_in(stmt.name, self)
           [] stmt.data = "Goto" -> stmt_Goto_in(stmt.name, self)

----------------------------------------------------------------------------
(* The for loops compared, and where they stand.                           *)

\* Statements in the body of the loop: at most this many.
MaxBody == 2

Exprs == {Leaf("Expr", ok, "") : ok \in BOOLEAN}
Decls == {Leaf("Decl", ok, "") : ok \in BOOLEAN}
Simple ==
    Exprs \cup {Leaf("Decl", TRUE, "")}
          \cup {Leaf(data, TRUE, "") : data \in {"Return", "Break", "Continue"}}
          \cup {Leaf(data, TRUE, name) : data \in {"Goto", "Label"},
                                         name \in Names}
Bodies ==
    {None} \cup {Some(stmt) : stmt \in Simple}
           \cup {Some(Compound(stmts)) :
                    stmts \in UNION {[1..n -> Simple] : n \in 0..MaxBody}}
Fors ==
    {For(init, Some(condition), Some(post_loop), body) :
        init \in {None} \cup {Some(stmt) : stmt \in Exprs \cup Decls},
        condition \in BOOLEAN, post_loop \in BOOLEAN, body \in Bodies}

\* The lowerer as Compiler::new leaves it.
Fresh ==
    Lowerer([blocks |-> << <<>> >>, cur |-> 1, seen |-> {1}, forever |-> {},
             posts |-> {}], <<>>, <<>>, {}, TRUE)

\* Where a for loop may stand: first in the function, after a label, after a
\* return, after a switch, as the body of a while loop or of a switch.
Places ==
    {Fresh, while_stmt_enter(TRUE, Fresh), switch_enter(Fresh)}
    \cup {compile_stmt_in(Leaf(data, TRUE, name), Fresh) :
             data \in {"Label", "Return"}, name \in Names}
    \cup {compile_stmt_in(Switch(TRUE, Leaf("Expr", TRUE, "")), Fresh)}

\* init followed by While(cond, {body; post;}).
as_while(stmt) ==
    LET post == Leaf("Expr", stmt.post_loop[1], "")
        stmts == IF stmt.body = None THEN <<>>
                 ELSE IF stmt.body[1].data = "Compound"
                 THEN stmt.body[1].stmts
                 ELSE <<stmt.body[1]>>
        loop == While(stmt.condition[1], Some(Compound(Append(stmts, post))))
    IN  IF stmt.init = None THEN <<loop>> ELSE <<stmt.init[1], loop>>

InitFor ==
    /\ InitWith(0)
    /\ \E stmt \in Fors, self \in Places :
        desugar = [stmt |-> Some(stmt), self |-> Some(self),
                   for |-> None, while |-> None]

lower_for ==
    /\ desugar.stmt # None /\ desugar.for = None
    /\ desugar' = [desugar EXCEPT !.for =
                      Some(compile_stmt_in(desugar.stmt[1], desugar.self[1]))]
    /\ UNCHANGED <<cvars, evars>>

lower_while ==
    /\ desugar.stmt # None /\ desugar.while = None
    /\ desugar' = [desugar EXCEPT !.while =
                      Some(compile_all_in(as_while(desugar.stmt[1]),
                                          desugar.self[1]))]
    /\ UNCHANGED <<cvars, evars>>

NextFor == lower_for \/ lower_while

SpecFor == InitFor /\ [][NextFor]_vars

----------------------------------------------------------------------------
(* C21: a Case or a Default lowered while no switch context is on the      *)
(* stack returns CaseOutsideSwitch at the statement, with is_default false *)
(* for the Case and true for the Default, and changes nothing: no block is *)
(* created, no instruction emitted, the insertion point, the stacks, the   *)
(* labels and last_saw_loop stay, and the inner statement is not lowered.  *)
C21_CaseOutsideSwitch ==
    [][ (IsCallOf({"Case", "Default"}) /\ switches = <<>>) =>
            /\ result'.tag = "Err"
            /\ result'.kind = "CaseOutsideSwitch"
            /\ result'.loc = last'.loc
            /\ result'.info = IF last'.op = "Default" THEN "is_default: true"
                              ELSE "is_default: false"
            /\ UNCHANGED <<builder, loops, switches, labels, last_saw_loop,
                           budget>>
            /\ stack' = Rest
      ]_vars

\* return; default: at the top of the function: the Default, a jump target,
\* is not turned down for the filled block; it is outside a switch.
C21_Witness ==
    /\ result.kind = "CaseOutsideSwitch"
    /\ result.info = "is_default: true"
    /\ is_filled(builder)
    /\ switches = <<>>

\* The activation of switch a statement is lowered in: the innermost switch
\* frame of the call stack.
SwitchFrames(st) == {i \in 1..Len(st) : st[i].k = "switch"}
InnermostSwitch(st) ==
    st[CHOOSE i \in SwitchFrames(st) : \A j \in SwitchFrames(st) : j <= i]

(* C22: the jump table of a switch.  A switch that is entered jumps from   *)
(* the block before it to a new dummy block and pushes a context with no   *)
(* entry and no default; a Case that returns no error adds its constant,   *)
(* with the block it leaves current, to the context of the switch it is    *)
(* lowered in and to no other, a Default sets the default slot of that     *)
(* context and no other; nothing else changes a context; and when the body *)
(* has returned Ok the dummy block holds one instruction, the jump table   *)
(* with the entries of that context, falling back to its default block if  *)
(* it has one and to the end block otherwise, and the end block is the     *)
(* insertion point.                                                        *)
C22_JumpTable ==
    [][ /\ (IsCallOf({"Switch"}) /\ result'.tag = "Running") =>
             LET frame == stack'[Len(stack') - 1]
             IN  /\ frame.k = "switch"
                 /\ frame.dummy_block = Len(builder.blocks) + 1
                 /\ frame.end = Len(builder.blocks) + 3
                 /\ Len(builder'.blocks) = Len(builder.blocks) + 3
                 /\ builder'.blocks[builder.cur] =
                        builder.blocks[builder.cur]
                            \o <<Value, Jump(frame.dummy_block)>>
                 /\ builder'.blocks[frame.dummy_block] = <<>>
                 /\ switches' = Append(switches, [entries |-> {}, default |-> 0,
                                                  end |-> frame.end])
        /\ (IsCallOf({"Case", "Default"}) /\ result'.tag = "Running"
               /\ SwitchFrames(stack) # {}) =>
             LET n == Cardinality(SwitchFrames(stack))
             IN  /\ Len(switches) = n
                 /\ Len(switches') = n
                 /\ \A i \in 1..(n - 1) : switches'[i] = switches[i]
                 /\ switches'[n].end = InnermostSwitch(stack).end
                 /\ switches[n].end = InnermostSwitch(stack).end
                 /\ builder'.blocks[InnermostSwitch(stack).dummy_block] = <<>>
                 /\ IF last'.op = "Case"
                    THEN /\ switches'[n].entries = switches[n].entries
                                \cup {<<last'.num, builder'.cur>>}
                         /\ switches'[n].default = switches[n].default
                    ELSE /\ switches'[n].entries = switches[n].entries
                         /\ switches'[n].default = builder'.cur
        /\ (~IsCallOf({"Switch", "Case", "Default"})
               /\ ~IsReturnInto("switch")) => switches' = switches
        /\ IsReturnInto("switch") =>
             LET n == Len(switches)
                 body == builder.cur
             IN  /\ n = Cardinality(SwitchFrames(stack))
                 /\ switches[n].end = Top.end
                 /\ switches' = SubSeq(switches, 1, n - 1)
                 /\ builder'.blocks[Top.dummy_block] =
                        << [op |-> "switch", table |-> switches[n].entries,
                            to |-> IF switches[n].default # 0
                                   THEN switches[n].default ELSE Top.end] >>
                 /\ builder'.cur = Top.end
                 /\ Len(builder'.blocks) = Len(builder.blocks)
                 /\ \A e \in Ebbs(builder) \ {Top.dummy_block, body} :
                        builder'.blocks[e] = builder.blocks[e]
                 /\ builder'.blocks[body] =
                        IF BlockFilled(builder, body) THEN builder.blocks[body]
                        ELSE Append(builder.blocks[body], Jump(Top.end))
                 /\ result'.tag \in {"Running", "Ok"}
      ]_vars

\* switch (x) case 1: default: ; has been lowered: the table holds the case,
\* its fallback is the block of the default, not the end block.
C22_Witness ==
    /\ result.tag = "Ok"
    /\ \E d \in Ebbs(builder) :
         /\ Len(builder.blocks[d]) = 1
         /\ builder.blocks[d][1].op = "switch"
         /\ builder.blocks[d][1].table # {}
         /\ builder.blocks[d][1].to # d + 2
         /\ builder.cur = d + 2

(* C23: in every state the lowerer reaches and for every block, the call   *)
(* jump_to_block(ebb) appends a jump to ebb to the current block when that *)
(* block is not filled and changes nothing when it is; a second call right *)
(* after it, to the same or another block, changes nothing.                *)
C23_JumpToBlockTwice ==
    \A ebb \in Ebbs(builder), again \in Ebbs(builder) :
        LET once == jump_to_block(ebb, builder)
        IN  /\ BlockFilled(builder, builder.cur) => once = builder
            /\ ~BlockFilled(builder, builder.cur) =>
                   once = [builder EXCEPT !.blocks[builder.cur] =
                              Append(@, [op |-> "jump", to |-> ebb,
                                         table |-> {}])]
            /\ jump_to_block(again, once) = once

\* a: f(); the label's jump_to_block has filled the entry block with a jump
\* to the label's block, which is open: a first call there emits a jump.
C23_Witness ==
    /\ result.tag = "Running"
    /\ ~BlockFilled(builder, builder.cur)
    /\ builder.blocks[builder.cur] # <<>>
    /\ \E e \in Ebbs(builder) :
         /\ builder.blocks[e] # <<>>
         /\ builder.blocks[e][Len(builder.blocks[e])] = Jump(builder.cur)
    /\ labels # {}

(* C24: whenever loop_exit is reached for a break with last_saw_loop false, *)
(* the stack of switch contexts is not empty, and the lowerer does not     *)
(* stop on expect("should be in a switch if last_saw_loop is false").      *)
C24_BreakFindsSwitch ==
    [][ ( /\ IsCallOf({"Break"})
          /\ ~is_filled(builder)
          /\ ~last_saw_loop ) =>
           /\ switches # <<>>
           /\ result'.tag # "Panic"
      ]_vars

(* C25: labels in program order.  Before the first statement the label map *)
(* is empty and only the lowering of a Label changes it: the Label maps    *)
(* its name to the block it creates and enters, in place of the block of   *)
(* an earlier Label of that name.  So the map holds the labels lowered so  *)
(* far, each with the block of its most recent Label, and a Goto that is   *)
(* not turned down as unreachable is resolved against exactly these: it    *)
(* jumps to the block of a label lowered before it, and returns            *)
(* UndeclaredLabel when its label has not been lowered yet, whatever       *)
(* follows.                                                                *)
C25_LabelsInProgramOrder ==
    [][ /\ nloc = 0 => labels = {}
        /\ labels' # labels => IsCallOf({"Label"})
        /\ IsCallOf({"Label"}) =>
             /\ builder'.cur = Len(builder.blocks) + 1
             /\ labels' = {l \in labels : l[1] # last'.name}
                              \cup {<<last'.name, builder'.cur>>}
        /\ (IsCallOf({"Goto"}) /\ ~BlockFilled(builder, builder.cur)) =>
             LET earlier == {l \in labels : l[1] = last'.name}
             IN  /\ Cardinality(earlier) <= 1
                 /\ earlier = {} =>
                      /\ result'.tag = "Err"
                      /\ result'.kind = "UndeclaredLabel"
                      /\ result'.info = last'.name
                      /\ builder' = builder
                 /\ \A l \in earlier :
                      /\ result'.tag \in {"Running", "Ok"}
                      /\ builder'.blocks[builder.cur] =
                             Append(builder.blocks[builder.cur],
                                    [op |-> "jump", to |-> l[2], table |-> {}])
                      /\ l[2] <= Len(builder.blocks)
      ]_vars

\* f(); goto a; with statements still to come: the goto was lowered before
\* any label and has returned UndeclaredLabel; a label after it is never
\* reached.
C25_Witness ==
    /\ result.tag = "Err"
    /\ result.kind = "UndeclaredLabel"
    /\ result.info \in Names
    /\ labels = {}
    /\ budget > 0
    /\ builder.blocks[1] # <<>>

====
